---- MODULE Spec2Model ----
(***************************************************************************)
(* Model of the Cloudflare adapter's _routes.json generation:              *)
(*   packages/cloudflare/src/utils/generate-routes.ts                      *)
(*     getParts, segmentsToCfSyntax, deduplicateInPlace, sort and the      *)
(*     default export (createRoutesFile)                                   *)
(*   packages/cloudflare/src/index.ts, hook 'astro:build:done'             *)
(*                                                                         *)
(* A JavaScript string is modelled as a sequence of one-character strings, *)
(* so that the regular expressions of the source are computed character by *)
(* character.                                                              *)
(***************************************************************************)
EXTENDS Integers, Sequences, FiniteSets, TLC

VARIABLES
    \* getParts applied to one path segment
    pPart, pOut,
    \* segmentsToCfSyntax applied to one route
    cSegments, cBase, cOut,
    \* sort applied to three token sequences
    sFirst, sSecond, sThird, sOut,
    \* the deduplication loop of createRoutesFile over one sorted list
    dPaths, dIndex, dPass, dSorted, dFirstPass, dRemoved,
    \* the hook 'astro:build:done': its position, its inputs, the two
    \* directories, its locals and those of createRoutesFile
    pc, config, routes, pages, publicFiles, fsClient, fsOut,
    redirectsExists, redirects, routesExists,
    includePaths, excludePaths, hasPrerendered404, dedupIndex,
    \* history: the writeFile calls made for _routes.json, the file as it
    \* was when its existence was checked, the steps of createRoutesFile done
    writeCalls, routesAtStat, stages

parseVars == <<pPart, pOut>>
compileVars == <<cSegments, cBase, cOut>>
sortVars == <<sFirst, sSecond, sThird, sOut>>
dedupVars == <<dPaths, dIndex, dPass, dSorted, dFirstPass, dRemoved>>
inputVars == <<config, routes, pages, publicFiles>>
hookVars == <<pc, config, routes, pages, publicFiles, fsClient, fsOut,
              redirectsExists, redirects, routesExists,
              includePaths, excludePaths, hasPrerendered404, dedupIndex,
              writeCalls, routesAtStat, stages>>
vars == <<parseVars, compileVars, sortVars, dedupVars, hookVars>>

(***************************************************************************)
(* Strings                                                                 *)
(***************************************************************************)
Lower == {"a","b","c","d","e","f","g","h","i","j","k","l","m",
          "n","o","p","q","r","s","t","u","v","w","x","y","z"}
Upper == {"A","B","C","D","E","F","G","H","I","J","K","L","M",
          "N","O","P","Q","R","S","T","U","V","W","X","Y","Z"}
Digit == {"0","1","2","3","4","5","6","7","8","9"}

\* the regular expression class \w
WordChar == Lower \cup Upper \cup Digit \cup {"_"}

\* all strings over alphabet cs of length at most n
StringsUpTo(cs, n) == UNION { [1..k -> cs] : k \in 0..n }

\* s.slice(from - 1): the suffix of s starting at the 1-based position from
Suffix(s, from) == SubSeq(s, from, Len(s))

RECURSIVE Join(_, _)
\* tokens.join(sep)
Join(tokens, sep) ==
    IF tokens = <<>> THEN <<>>
    ELSE IF Len(tokens) = 1 THEN tokens[1]
    ELSE tokens[1] \o <<sep>> \o Join(Tail(tokens), sep)

RECURSIVE SplitOn(_, _)
\* s.split(sep) for a one-character separator
SplitOn(s, sep) ==
    IF \A i \in 1..Len(s) : s[i] # sep THEN <<s>>
    ELSE LET i == CHOOSE j \in 1..Len(s) :
                      s[j] = sep /\ \A k \in 1..(j - 1) : s[k] # sep
         IN <<SubSeq(s, 1, i - 1)>> \o SplitOn(Suffix(s, i + 1), sep)

\* list.filter(Boolean) on a list of strings: the empty strings are dropped
FilterNonEmpty(list) == SelectSeq(list, LAMBDA s : s # <<>>)

(***************************************************************************)
(* getParts                                                                *)
(***************************************************************************)
NoMatch == [found |-> FALSE, cap |-> <<>>, end |-> 0]

\* First alternative of the split pattern, .+?\(.+?\) followed by \], tried
\* at the opening bracket at position q. Both quantifiers are lazy: the
\* shortest x wins, and for it the shortest y.
Alt1Lengths(s, q) ==
    { xy \in (1..Len(s)) \X (1..Len(s)) :
        LET open == q + xy[1] + 1
            close == open + xy[2] + 1
        IN /\ close + 1 <= Len(s)
           /\ s[open] = "("
           /\ s[close] = ")"
           /\ s[close + 1] = "]" }

\* Second alternative, .+? followed by \]: the nearest closing bracket that
\* leaves at least one character inside.
Alt2Lengths(s, q) == { cl \in 1..Len(s) : q + cl + 1 <= Len(s) /\ s[q + cl + 1] = "]" }

\* A match of /\[(.+?\(.+?\)|.+?)\]/ starting exactly at position q.
BracketMatchAt(s, q) ==
    IF s[q] # "[" THEN NoMatch
    ELSE IF Alt1Lengths(s, q) # {} THEN
        LET xl == CHOOSE x \in 1..Len(s) :
                      /\ \E y \in 1..Len(s) : <<x, y>> \in Alt1Lengths(s, q)
                      /\ \A xy \in Alt1Lengths(s, q) : x <= xy[1]
            yl == CHOOSE y \in 1..Len(s) :
                      /\ <<xl, y>> \in Alt1Lengths(s, q)
                      /\ \A xy \in Alt1Lengths(s, q) : xy[1] = xl => y <= xy[2]
        IN [found |-> TRUE, cap |-> SubSeq(s, q + 1, q + xl + yl + 2),
            end |-> q + xl + yl + 3]
    ELSE IF Alt2Lengths(s, q) # {} THEN
        LET cl == CHOOSE c \in Alt2Lengths(s, q) : \A d \in Alt2Lengths(s, q) : c <= d
        IN [found |-> TRUE, cap |-> SubSeq(s, q + 1, q + cl), end |-> q + cl + 1]
    ELSE NoMatch

RECURSIVE SplitBrackets(_, _, _)
\* part.split(/\[(.+?\(.+?\)|.+?)\]/): the text before each match, then the
\* match's capture group, ..., then the text after the last match. p is the
\* start of the pending text, q the position the pattern is tried at.
SplitBrackets(s, p, q) ==
    IF q > Len(s) THEN <<SubSeq(s, p, Len(s))>>
    ELSE LET m == BracketMatchAt(s, q)
         IN IF m.found
            THEN <<SubSeq(s, p, q - 1), m.cap>> \o SplitBrackets(s, m.end + 1, m.end + 1)
            ELSE SplitBrackets(s, p, q + 1)

\* /([^(]+)$/.exec(str): the text after the last "(", null when it is empty
AfterLastParen(str) ==
    LET opens == { i \in 1..Len(str) : str[i] = "(" }
        last == IF opens = {} THEN 0
                ELSE CHOOSE i \in opens : \A j \in opens : j <= i
    IN Suffix(str, last + 1)

\* [\w$]+ matching the whole of s
IsWordDollar(s) == s # <<>> /\ \A i \in 1..Len(s) : s[i] \in WordChar \cup {"$"}

HasSpreadDots(content) ==
    Len(content) >= 3 /\ content[1] = "." /\ content[2] = "." /\ content[3] = "."

\* A faulty variant of ParamNameOk, the pattern without its anchors; C7
\* does not hold with it.
ParamNameOkUnanchored(content) ==
    \E i \in 1..Len(content) : content[i] \in WordChar \cup {"$"}

\* /^(?:\.\.\.)?[\w$]+$/.test(content)
ParamNameOk(content) ==
    \/ IsWordDollar(content)
    \/ HasSpreadDots(content) /\ IsWordDollar(Suffix(content, 4))

\* /^\.{3}.+$/.test(content)
SpreadTest(content) == HasSpreadDots(content) /\ Len(content) >= 4

PartsOk(parts) == [err |-> FALSE, parts |-> parts]
PartsError == [err |-> TRUE, parts |-> <<>>]

RECURSIVE MapPieces(_, _, _)
\* the map callback over the pieces of the split, piece k (1-based) being
\* dynamic when its 0-based index is odd; the first throw abandons the result
MapPieces(pieces, k, acc) ==
    IF k > Len(pieces) THEN PartsOk(acc)
    ELSE LET str == pieces[k]
             dynamic == (k - 1) % 2 = 1
             content == IF dynamic THEN AfterLastParen(str) ELSE str
         IN IF str = <<>> THEN MapPieces(pieces, k + 1, acc)
            ELSE IF content = <<>> \/ (dynamic /\ ~ParamNameOk(content)) THEN PartsError
            ELSE MapPieces(pieces, k + 1,
                     Append(acc, [content |-> content, dynamic |-> dynamic,
                                  spread |-> dynamic /\ SpreadTest(content)]))

getParts(part) == MapPieces(SplitBrackets(part, 1, 1), 1, <<>>)

(***************************************************************************)
(* segmentsToCfSyntax                                                      *)
(***************************************************************************)
\* removeTrailingForwardSlash of ./assets.js
removeTrailingForwardSlash(path) ==
    IF path # <<>> /\ path[Len(path)] = "/" THEN SubSeq(path, 1, Len(path) - 1) ELSE path

\* removeLeadingForwardSlash of ./assets.js
removeLeadingForwardSlash(path) ==
    IF path # <<>> /\ path[1] = "/" THEN Tail(path) ELSE path

RECURSIVE Flat(_)
\* segments.flat()
Flat(segments) ==
    IF segments = <<>> THEN <<>> ELSE Head(segments) \o Flat(Tail(segments))

Wildcard == <<"*">>

segmentsToCfSyntax(segments, base) ==
    IF Len(segments) = 0 THEN << <<>>, <<>> >>
    ELSE LET parts == Flat(segments)
         IN <<removeLeadingForwardSlash(removeTrailingForwardSlash(base))>>
            \o [i \in 1..Len(parts) |->
                   IF parts[i].dynamic THEN Wildcard ELSE parts[i].content]

(***************************************************************************)
(* sort                                                                    *)
(***************************************************************************)
RECURSIVE SortScan(_, _, _)
\* the loop of sort over the positions i..first.length (1-based)
SortScan(first, second, i) ==
    IF i > Len(first) THEN 0
    ELSE IF first[i] = second[i] THEN SortScan(first, second, i + 1)
    ELSE IF first[i] = Wildcard /\ second[i] # Wildcard THEN -1
    ELSE IF first[i] # Wildcard /\ second[i] = Wildcard THEN 1
    ELSE SortScan(first, second, i + 1)

RECURSIVE SortScanAnyDifference(_, _, _)
\* A faulty variant of sort, in which the first difference decides even
\* between two literals; C9 does not hold with it.
SortScanAnyDifference(first, second, i) ==
    IF i > Len(first) THEN 0
    ELSE IF first[i] = second[i] THEN SortScanAnyDifference(first, second, i + 1)
    ELSE IF first[i] = Wildcard THEN -1
    ELSE 1

sortAnyDifference(first, second) ==
    IF Len(second) > Len(first) THEN -1
    ELSE IF Len(first) > Len(second) THEN 1
    ELSE SortScanAnyDifference(first, second, 1)

sort(first, second) ==
    IF Len(second) > Len(first) THEN -1
    ELSE IF Len(first) > Len(second) THEN 1
    ELSE SortScan(first, second, 1)

\* list.sort(sort). Array.prototype.sort is stable: an element goes behind
\* the elements that sort before it and behind the earlier ones it compares
\* equal to.
SortPaths(list) ==
    LET n == Len(list)
        rank == [k \in 1..n |->
                    Cardinality({ j \in 1..n :
                                    LET c == sort(list[j], list[k])
                                    IN c < 0 \/ (c = 0 /\ j < k) })]
    IN [p \in 1..n |-> list[CHOOSE k \in 1..n : rank[k] = p - 1]]

(***************************************************************************)
(* deduplicateInPlace                                                      *)
(***************************************************************************)
\* ("*/")* "*" : a run of wildcard tokens reaching the end of the string
IsWildcardRun(t) ==
    /\ Len(t) % 2 = 1
    /\ \A i \in 1..Len(t) : t[i] = (IF i % 2 = 1 THEN "*" ELSE "/")

\* where /(\*\/)*\*$/ matches in src (the leftmost position), 0 when nowhere
TrailingRunStart(src) ==
    LET starts == { p \in 1..Len(src) : IsWildcardRun(Suffix(src, p)) }
    IN IF starts = {} THEN 0 ELSE CHOOSE p \in starts : \A r \in starts : p <= r

\* the character class the replacement inserts, with its quantifier: [*\w\/]+
ClassPlus == [kind |-> "class", ch |-> "", q |-> "plus"]

RECURSIVE RegExpItems(_, _)
\* The pattern text read as a regular expression, from position i: "." is
\* any character, "*" repeats the atom before it, everything else of the
\* alphabet of this model stands for itself.
RegExpItems(src, i) ==
    IF i > Len(src) THEN <<>>
    ELSE LET starred == i < Len(src) /\ src[i + 1] = "*"
             item == [kind |-> IF src[i] = "." THEN "any" ELSE "lit", ch |-> src[i],
                      q |-> IF starred THEN "star" ELSE "one"]
         IN <<item>> \o RegExpItems(src, IF starred THEN i + 2 ELSE i + 1)

\* new RegExp(`${element.join('/').replace(/(\*\/)*\*$/g, '[*\\w\\/]+')}$`, 'gm')
\* as the items before the final "$"
ElementRegExp(element) ==
    LET src == Join(element, "/")
        run == TrailingRunStart(src)
    IN IF run = 0 THEN RegExpItems(src, 1)
       ELSE RegExpItems(SubSeq(src, 1, run - 1), 1) \o <<ClassPlus>>

AtomMatches(item, c) ==
    CASE item.kind = "lit" -> c = item.ch
      [] item.kind = "any" -> TRUE
      [] item.kind = "class" -> c \in WordChar \cup {"*", "/"}

\* offsets (0..Len(str)) reached from the offsets S by one more character
Advance(item, str, S) ==
    { p + 1 : p \in { r \in S : r < Len(str) /\ AtomMatches(item, str[r + 1]) } }

RECURSIVE Closure(_, _, _)
Closure(item, str, S) ==
    LET more == S \cup Advance(item, str, S)
    IN IF more = S THEN S ELSE Closure(item, str, more)

RECURSIVE RunItems(_, _, _, _)
\* offsets reached after the items k.. from the offsets S
RunItems(items, k, str, S) ==
    IF k > Len(items) THEN S
    ELSE LET item == items[k]
             next == CASE item.q = "one" -> Advance(item, str, S)
                       [] item.q = "star" -> Closure(item, str, S)
                       [] item.q = "plus" -> Closure(item, str, Advance(item, str, S))
         IN RunItems(items, k + 1, str, next)

\* a match of the items followed by "$" that starts at offset from or later
MatchesFrom(items, str, from) ==
    from <= Len(str) /\ Len(str) \in RunItems(items, 1, str, from..Len(str))

\* regexp.test(str) of a regular expression with the g flag: the search
\* starts at lastIndex, a match leaves lastIndex at its end (the end of the
\* string, by the "$"), a failure resets it to 0
RegExpTest(items, str, lastIndex) ==
    IF MatchesFrom(items, str, lastIndex)
    THEN [matched |-> TRUE, lastIndex |-> Len(str)]
    ELSE [matched |-> FALSE, lastIndex |-> 0]

RECURSIVE DedupRange(_, _, _, _, _)
\* The for loop of deduplicateInPlace over the elements at the 1-based
\* positions a..b of paths. The loop tests every element behind index once,
\* in list order (a removal moves the next element to the position of the
\* loop variable, which then stays), each test starting at the lastIndex
\* the test before it left. The range is halved so that the evaluation
\* does not nest as deep as the list is long.
DedupRange(items, paths, a, b, lastIndex) ==
    IF a > b THEN [matched |-> <<>>, lastIndex |-> lastIndex]
    ELSE IF a = b
    THEN LET t == RegExpTest(items, Join(paths[a], "/"), lastIndex)
         IN [matched |-> <<t.matched>>, lastIndex |-> t.lastIndex]
    ELSE LET mid == (a + b) \div 2
             left == DedupRange(items, paths, a, mid, lastIndex)
             right == DedupRange(items, paths, mid + 1, b, left.lastIndex)
         IN [matched |-> left.matched \o right.matched, lastIndex |-> right.lastIndex]

\* The list after deduplicateInPlace(element, index, paths), and what it
\* removed; index is 0-based, as in the source.
deduplicateInPlace(element, index, paths) ==
    LET first == index + 2
        r == DedupRange(ElementRegExp(element), paths, first, Len(paths), 0)
        positions == [k \in 1..Len(paths) |-> k]
        gone(k) == k >= first /\ r.matched[k - first + 1]
        kept == SelectSeq(positions, LAMBDA k : ~gone(k))
        dropped == SelectSeq(positions, gone)
    IN [paths |-> [k \in 1..Len(kept) |-> paths[kept[k]]],
        removed |-> [k \in 1..Len(dropped) |-> paths[dropped[k]]]]

(***************************************************************************)
(* createRoutesFile (the default export of generate-routes.ts)             *)
(***************************************************************************)
MaxIncludePaths == 100
ExcludeSlice == 99
ManifestVersion == 1

DefaultAssetsPrefix == <<"_","a","s","t","r","o">>

\* the names glob results are skipped for, and the hook moves
ControlFiles == { <<"_","h","e","a","d","e","r","s">>,
                  <<"_","r","e","d","i","r","e","c","t","s">>,
                  <<"_","r","o","u","t","e","s",".","j","s","o","n">> }
RedirectsFile == <<"_","r","e","d","i","r","e","c","t","s">>
RoutesFile == <<"_","r","o","u","t","e","s",".","j","s","o","n">>

RECURSIVE MapGetParts(_, _, _)
\* list.map((s) => getParts(s)); a throw abandons the whole map
MapGetParts(list, k, acc) ==
    IF k > Len(list) THEN [err |-> FALSE, segments |-> acc]
    ELSE LET r == getParts(list[k])
         IN IF r.err THEN [err |-> TRUE, segments |-> <<>>]
            ELSE MapGetParts(list, k + 1, Append(acc, r.parts))

\* removeLeadingForwardSlash(path).split(posix.sep).filter(Boolean).map(getParts)
PathSegments(path) ==
    MapGetParts(FilterNonEmpty(SplitOn(removeLeadingForwardSlash(path), "/")), 1, <<>>)

\* the loop over routes, lines 97-108: a route goes to at most one list, the
\* lists keep the order of the routes
ClassifyRoutes(rs, base) ==
    LET inc == SelectSeq(rs, LAMBDA r : (r.type = "page" /\ ~r.prerender)
                                        \/ (r.type = "endpoint" /\ ~r.prerender))
        exc == SelectSeq(rs, LAMBDA r : (r.type = "endpoint" /\ r.prerender)
                                        \/ r.type = "redirect")
    IN [include |-> [i \in 1..Len(inc) |-> segmentsToCfSyntax(inc[i].segments, base)],
        exclude |-> [i \in 1..Len(exc) |-> segmentsToCfSyntax(exc[i].segments, base)],
        has404 |-> \E i \in 1..Len(rs) :
                      rs[i].pathname = <<"/","4","0","4">> /\ rs[i].prerender]

\* a loop pushing segmentsToCfSyntax(<segments of a path>) for every path of
\* a list (pages, lines 110-118; static files, lines 125-136), skipping the
\* paths in skip; a throw of getParts ends it
PathsOf(paths, base, skip) ==
    LET kept == SelectSeq(paths, LAMBDA q : q \notin skip)
        segs == [i \in 1..Len(kept) |-> PathSegments(kept[i])]
    IN [err |-> \E i \in 1..Len(kept) : segs[i].err,
        list |-> [i \in 1..Len(kept) |-> segmentsToCfSyntax(segs[i].segments, base)]]

\* lines 138-145
AssetsPath(cfg) ==
    segmentsToCfSyntax(
        << <<[content |-> IF cfg.assetsPrefixSet THEN cfg.assetsPrefix
                          ELSE DefaultAssetsPrefix,
              dynamic |-> FALSE, spread |-> FALSE]>>,
           <<[content |-> <<>>, dynamic |-> TRUE, spread |-> FALSE]>> >>,
        cfg.base)

JoinAll(paths) == [i \in 1..Len(paths) |-> Join(paths[i], "/")]

\* list.slice(0, n)
SliceTo(list, n) == SubSeq(list, 1, IF Len(list) < n THEN Len(list) ELSE n)

NoManifest == [version |-> 0, include |-> <<>>, exclude |-> <<>>]

\* A faulty variant of ManifestChoice, with >= for > and no third branch; C1
\* does not hold with it.
ManifestChoiceAtLeast(has404, inc, exc) ==
    IF ~has404 \/ Len(inc) >= MaxIncludePaths \/ Len(inc) >= Len(exc)
    THEN [write |-> TRUE,
          data |-> [version |-> ManifestVersion, include |-> << <<"/","*">> >>,
                    exclude |-> SliceTo(JoinAll(exc), ExcludeSlice)]]
    ELSE [write |-> TRUE,
          data |-> [version |-> ManifestVersion, include |-> JoinAll(inc),
                    exclude |-> <<>>]]

\* A faulty variant of ManifestChoice, without the slice; C2 does not hold
\* with it.
ManifestChoiceNoSlice(has404, inc, exc) ==
    IF ~has404 \/ Len(inc) > MaxIncludePaths \/ Len(inc) > Len(exc)
    THEN [write |-> TRUE,
          data |-> [version |-> ManifestVersion, include |-> << <<"/","*">> >>,
                    exclude |-> JoinAll(exc)]]
    ELSE IF Len(inc) < Len(exc)
    THEN [write |-> TRUE,
          data |-> [version |-> ManifestVersion, include |-> JoinAll(inc),
                    exclude |-> <<>>]]
    ELSE [write |-> FALSE, data |-> NoManifest]

\* lines 177-219: which manifest, if any, is handed to writeFile
ManifestChoice(has404, inc, exc) ==
    IF ~has404 \/ Len(inc) > MaxIncludePaths \/ Len(inc) > Len(exc)
    THEN [write |-> TRUE,
          data |-> [version |-> ManifestVersion, include |-> << <<"/","*">> >>,
                    exclude |-> SliceTo(JoinAll(exc), ExcludeSlice)]]
    ELSE IF Len(inc) < Len(exc)
    THEN [write |-> TRUE,
          data |-> [version |-> ManifestVersion, include |-> JoinAll(inc),
                    exclude |-> <<>>]]
    ELSE [write |-> FALSE, data |-> NoManifest]

(***************************************************************************)
(* The hook 'astro:build:done'                                             *)
(***************************************************************************)
Absent == [kind |-> "absent", body |-> <<>>]
FileOf(body) == [kind |-> "file", body |-> body]
Directory == [kind |-> "dir", body |-> <<>>]

\* rename(client/file, out/file), its failure ignored: it fails when there
\* is nothing to move, and when a directory is in the way of a file
RenameInto(client, out, file) ==
    IF client[file].kind # "file" \/ out[file].kind = "dir"
    THEN [client |-> client, out |-> out]
    ELSE [client |-> [client EXCEPT ![file] = Absent],
          out |-> [out EXCEPT ![file] = client[file]]]

RECURSIVE ReplaceColonParams(_)
\* s.replace(/\/:.*?(?=\/|$)/g, '/*')
ReplaceColonParams(s) ==
    IF Len(s) < 2 THEN s
    ELSE IF s[1] = "/" /\ s[2] = ":"
    THEN LET rest == Suffix(s, 3)
             stops == { i \in 1..Len(rest) : rest[i] = "/" }
             stop == IF stops = {} THEN Len(rest) + 1
                     ELSE CHOOSE i \in stops : \A j \in stops : i <= j
         IN <<"/", "*">> \o ReplaceColonParams(Suffix(rest, stop))
    ELSE <<s[1]>> \o ReplaceColonParams(Tail(s))

\* s.replace(/\?.*$/, '')
StripQuery(s) ==
    LET marks == { i \in 1..Len(s) : s[i] = "?" }
    IN IF marks = {} THEN s
       ELSE SubSeq(s, 1, (CHOOSE i \in marks : \A j \in marks : i <= j) - 1)

RECURSIVE RedirectSegments(_, _, _)
\* lines 206-215 for the segments of one source path
RedirectSegments(list, k, acc) ==
    IF k > Len(list) THEN [err |-> FALSE, segments |-> acc]
    ELSE LET r == getParts(StripQuery(ReplaceColonParams(list[k])))
         IN IF r.err THEN [err |-> TRUE, segments |-> <<>>]
            ELSE RedirectSegments(list, k + 1, Append(acc, r.parts))

RECURSIVE ParseRedirectLines(_, _, _)
\* lines 203-218: one entry per line that has at least two fields
ParseRedirectLines(lines, k, acc) ==
    IF k > Len(lines) THEN [err |-> FALSE, list |-> acc]
    ELSE LET parts == SplitOn(lines[k], " ")
         IN IF Len(parts) >= 2
            THEN LET p == RedirectSegments(
                              FilterNonEmpty(SplitOn(removeLeadingForwardSlash(parts[1]), "/")),
                              1, <<>>)
                 IN IF p.err THEN [err |-> TRUE, list |-> <<>>]
                    ELSE ParseRedirectLines(lines, k + 1, Append(acc, p.segments))
            ELSE ParseRedirectLines(lines, k + 1, acc)

(***************************************************************************)
(* Inputs of a build                                                       *)
(***************************************************************************)
\* a route as Astro hands it over: its segments are the parts of the pieces
\* of its path
Route(path, type, prerender) ==
    [pathname |-> path, segments |-> PathSegments(path).segments,
     type |-> type, prerender |-> prerender]

RouteCatalogue ==
    << Route(<<"/","4","0","4">>, "page", TRUE),
       Route(<<"/","p","/","[","i","d","]">>, "page", FALSE),
       Route(<<"/","a","p","i">>, "endpoint", FALSE),
       Route(<<"/","f","e","e","d">>, "endpoint", TRUE),
       Route(<<"/","o","l","d">>, "redirect", FALSE) >>

RECURSIVE NumberText(_)
\* the decimal digits of n
NumberText(n) ==
    LET d == <<"0","1","2","3","4","5","6","7","8","9">>[(n % 10) + 1]
    IN IF n < 10 THEN <<d>> ELSE NumberText(n \div 10) \o <<d>>

\* n distinct server-rendered pages /r1 ... /rn
BulkRoutes(n) == [k \in 1..n |-> Route(<<"/","r">> \o NumberText(k), "page", FALSE)]

\* n distinct files f1 ... fn of the public directory
BulkFiles(n) == [k \in 1..n |-> <<"f">> \o NumberText(k)]

\* how many bulk routes and bulk files a build has: none, or as many as put
\* the lists at and over the limits of the manifest
BulkChoices ==
    { <<0, 0>>, <<0, MaxIncludePaths + 1>>, <<MaxIncludePaths, MaxIncludePaths + 1>>,
      <<MaxIncludePaths + 1, MaxIncludePaths + 1>>, <<MaxIncludePaths + 1, 0>> }

PageChoices ==
    { <<>>,
      << <<"4","0","4","/">> >>,
      << <<"4","0","4","/">>, <<"a","/">> >> }

PublicChoices ==
    { <<>>,
      << <<"f",".","i","c","o">> >>,
      << <<"_","h","e","a","d","e","r","s">>, <<"i","/","x",".","p","n","g">>, <<"a">> >>,
      << <<"[",".",".","x","]">> >> }

Bases == { <<"/">>, <<"/","d">> }

RedirectsChoices ==
    { Absent,
      FileOf(<< <<"/","o"," ","/","n">> >>),
      FileOf(<< <<"#","c">>, <<"/","u","/",":","i","?","q"," ","/","y">> >>) }

RECURSIVE PickRoutes(_, _)
\* the routes of the catalogue whose index is in sel, in catalogue order
PickRoutes(sel, k) ==
    IF k > Len(RouteCatalogue) THEN <<>>
    ELSE (IF k \in sel THEN <<RouteCatalogue[k]>> ELSE <<>>) \o PickRoutes(sel, k + 1)

ExternalManifest ==
    [version |-> ManifestVersion, include |-> << <<"/","x">> >>, exclude |-> <<>>]
ClientManifest ==
    [version |-> ManifestVersion, include |-> << <<"/","y">> >>, exclude |-> <<>>]

(***************************************************************************)
(* Specification Spec: one run of the hook 'astro:build:done'              *)
(***************************************************************************)
HookIdle ==
    /\ pc = "idle"
    /\ config = [base |-> <<"/">>, assetsPrefixSet |-> FALSE, assetsPrefix |-> <<>>]
    /\ routes = <<>> /\ pages = <<>> /\ publicFiles = <<>>
    /\ fsClient = [f \in ControlFiles |-> Absent]
    /\ fsOut = [f \in ControlFiles |-> Absent]
    /\ redirectsExists = FALSE /\ redirects = <<>> /\ routesExists = FALSE
    /\ includePaths = <<>> /\ excludePaths = <<>> /\ hasPrerendered404 = FALSE
    /\ dedupIndex = 0
    /\ writeCalls = <<>> /\ routesAtStat = Absent /\ stages = {}

HookInit ==
    /\ pc = "start"
    /\ \E base \in Bases, sel \in SUBSET (1..Len(RouteCatalogue)),
          bulk \in BulkChoices,
          pg \in PageChoices, pub \in PublicChoices,
          clientRoutes \in {Absent, FileOf(<<ClientManifest>>)},
          outRoutes \in {Absent, FileOf(<<ExternalManifest>>), Directory},
          outRedirects \in RedirectsChoices :
        \* the builds with a hundred routes or files and more are explored
        \* from empty directories, with or without the first route of the
        \* catalogue
        /\ bulk # <<0, 0>> =>
              /\ base = <<"/">> /\ sel \subseteq {1} /\ pg = <<>> /\ pub = <<>>
              /\ clientRoutes = Absent /\ outRoutes = Absent /\ outRedirects = Absent
        /\ config = [base |-> base, assetsPrefixSet |-> FALSE, assetsPrefix |-> <<>>]
        /\ routes = PickRoutes(sel, 1) \o BulkRoutes(bulk[1])
        /\ pages = pg
        /\ publicFiles = pub \o BulkFiles(bulk[2])
        /\ fsClient = [f \in ControlFiles |-> IF f = RoutesFile THEN clientRoutes ELSE Absent]
        /\ fsOut = [f \in ControlFiles |->
                       IF f = RoutesFile THEN outRoutes
                       ELSE IF f = RedirectsFile THEN outRedirects ELSE Absent]
    /\ redirectsExists = FALSE /\ redirects = <<>> /\ routesExists = FALSE
    /\ includePaths = <<>> /\ excludePaths = <<>> /\ hasPrerendered404 = FALSE
    /\ dedupIndex = 0
    /\ writeCalls = <<>> /\ routesAtStat = Absent /\ stages = {}

listVars == <<includePaths, excludePaths, hasPrerendered404, dedupIndex>>
fsVars == <<fsClient, fsOut>>
statVars == <<redirectsExists, redirects, routesExists, routesAtStat>>

\* lines 176-184: with a base path the three control files are moved from
\* the client directory to the output directory
MoveControlFiles ==
    /\ pc = "start"
    /\ IF config.base # <<"/">>
       THEN LET m1 == RenameInto(fsClient, fsOut, <<"_","h","e","a","d","e","r","s">>)
                m2 == RenameInto(m1.client, m1.out, RedirectsFile)
                m3 == RenameInto(m2.client, m2.out, RoutesFile)
            IN fsClient' = m3.client /\ fsOut' = m3.out
       ELSE UNCHANGED fsVars
    /\ pc' = "statRedirects"
    /\ UNCHANGED <<inputVars, listVars, statVars, writeCalls, stages>>
    /\ UNCHANGED <<parseVars, compileVars, sortVars, dedupVars>>

\* lines 186-194
StatRedirects ==
    /\ pc = "statRedirects"
    /\ redirectsExists' = (fsOut[RedirectsFile].kind = "file")
    /\ pc' = IF fsOut[RedirectsFile].kind = "file" THEN "readRedirects" ELSE "statRoutes"
    /\ UNCHANGED <<inputVars, fsVars, listVars, redirects, routesExists, routesAtStat,
                   writeCalls, stages>>
    /\ UNCHANGED <<parseVars, compileVars, sortVars, dedupVars>>

\* lines 196-219; a throw of getParts leaves the hook
ReadRedirects ==
    /\ pc = "readRedirects"
    /\ LET r == ParseRedirectLines(fsOut[RedirectsFile].body, 1, <<>>)
       IN /\ redirects' = r.list
          /\ pc' = IF r.err THEN "failed" ELSE "statRoutes"
    /\ UNCHANGED <<inputVars, fsVars, listVars, redirectsExists, routesExists, routesAtStat,
                   writeCalls, stages>>
    /\ UNCHANGED <<parseVars, compileVars, sortVars, dedupVars>>

\* A faulty variant of StatRoutes, which goes on to createRoutesFile
\* whatever it found; C8 does not hold with it.
StatRoutesAlwaysCreate ==
    /\ pc = "statRoutes"
    /\ routesExists' = (fsOut[RoutesFile].kind = "file")
    /\ routesAtStat' = fsOut[RoutesFile]
    /\ pc' = "classify"
    /\ UNCHANGED <<inputVars, fsVars, listVars, redirectsExists, redirects, writeCalls, stages>>
    /\ UNCHANGED <<parseVars, compileVars, sortVars, dedupVars>>

\* lines 221-233: createRoutesFile is called only if no file is there
StatRoutes ==
    /\ pc = "statRoutes"
    /\ routesExists' = (fsOut[RoutesFile].kind = "file")
    /\ routesAtStat' = fsOut[RoutesFile]
    /\ pc' = IF fsOut[RoutesFile].kind = "file" THEN "appendRedirects" ELSE "classify"
    /\ UNCHANGED <<inputVars, fsVars, listVars, redirectsExists, redirects, writeCalls, stages>>
    /\ UNCHANGED <<parseVars, compileVars, sortVars, dedupVars>>

\* createRoutesFile lines 93-120, up to the await of glob
Classify ==
    /\ pc = "classify"
    /\ LET c == ClassifyRoutes(routes, config.base)
           pg == PathsOf(pages, config.base, {})
       IN /\ hasPrerendered404' = c.has404
          /\ includePaths' = c.include
          /\ excludePaths' = c.exclude \o pg.list
          /\ pc' = IF pg.err THEN "failed" ELSE "collect"
    /\ UNCHANGED <<inputVars, fsVars, statVars, dedupIndex, writeCalls, stages>>
    /\ UNCHANGED <<parseVars, compileVars, sortVars, dedupVars>>

\* createRoutesFile lines 125-149: the static files, the assets path and the
\* redirects are pushed to excludePaths
CollectExcludes ==
    /\ pc = "collect"
    /\ LET st == PathsOf(publicFiles, config.base, ControlFiles)
           rd == [i \in 1..Len(redirects) |-> segmentsToCfSyntax(redirects[i], config.base)]
       IN /\ excludePaths' = IF st.err THEN excludePaths
                             ELSE excludePaths \o st.list \o <<AssetsPath(config)>> \o rd
          /\ pc' = IF st.err THEN "failed" ELSE "sort"
          /\ stages' = IF st.err THEN stages ELSE stages \cup {"classified"}
    /\ UNCHANGED <<inputVars, fsVars, statVars, includePaths, hasPrerendered404, dedupIndex,
                   writeCalls>>
    /\ UNCHANGED <<parseVars, compileVars, sortVars, dedupVars>>

\* createRoutesFile lines 151-152
SortLists ==
    /\ pc = "sort"
    /\ includePaths' = SortPaths(includePaths)
    /\ excludePaths' = SortPaths(excludePaths)
    /\ pc' = "dedupInclude"
    /\ stages' = stages \cup {"sorted"}
    /\ UNCHANGED <<inputVars, fsVars, statVars, hasPrerendered404, dedupIndex, writeCalls>>
    /\ UNCHANGED <<parseVars, compileVars, sortVars, dedupVars>>

\* createRoutesFile lines 158-160: one turn of the loop over
\* includePaths.entries(), which reads the list as it is at each index
DedupInclude ==
    /\ pc = "dedupInclude"
    /\ IF dedupIndex < Len(includePaths)
       THEN /\ includePaths' =
                  deduplicateInPlace(includePaths[dedupIndex + 1], dedupIndex, includePaths).paths
            /\ dedupIndex' = dedupIndex + 1
            /\ UNCHANGED pc
       ELSE /\ pc' = "dedupExclude"
            /\ dedupIndex' = 0
            /\ UNCHANGED includePaths
    /\ UNCHANGED <<inputVars, fsVars, statVars, excludePaths, hasPrerendered404,
                   writeCalls, stages>>
    /\ UNCHANGED <<parseVars, compileVars, sortVars, dedupVars>>

\* createRoutesFile lines 162-165
DedupExclude ==
    /\ pc = "dedupExclude"
    /\ IF dedupIndex < Len(excludePaths)
       THEN /\ excludePaths' =
                  deduplicateInPlace(excludePaths[dedupIndex + 1], dedupIndex, excludePaths).paths
            /\ dedupIndex' = dedupIndex + 1
            /\ UNCHANGED <<pc, stages>>
       ELSE /\ pc' = "write"
            /\ dedupIndex' = 0
            /\ stages' = stages \cup {"deduplicated"}
            /\ UNCHANGED excludePaths
    /\ UNCHANGED <<inputVars, fsVars, statVars, includePaths, hasPrerendered404, writeCalls>>
    /\ UNCHANGED <<parseVars, compileVars, sortVars, dedupVars>>

\* createRoutesFile lines 177-219: at most one writeFile, whose failure (ok
\* false, or a directory in the way) is caught and dropped
WriteManifest ==
    /\ pc = "write"
    /\ LET choice == ManifestChoice(hasPrerendered404, includePaths, excludePaths)
       IN IF choice.write
          THEN /\ writeCalls' = Append(writeCalls, choice.data)
               /\ \E ok \in BOOLEAN :
                     fsOut' = IF ok /\ fsOut[RoutesFile].kind # "dir"
                              THEN [fsOut EXCEPT ![RoutesFile] = FileOf(<<choice.data>>)]
                              ELSE fsOut
          ELSE UNCHANGED <<writeCalls, fsOut>>
    /\ pc' = "appendRedirects"
    /\ stages' = stages \cup {"decided"}
    /\ UNCHANGED <<inputVars, fsClient, statVars, listVars>>
    /\ UNCHANGED <<parseVars, compileVars, sortVars, dedupVars>>

\* one line of _redirects per redirect route (the text is produced by
\* @astrojs/underscore-redirects)
RedirectLines ==
    LET rs == SelectSeq(routes, LAMBDA r : r.type = "redirect")
    IN [i \in 1..Len(rs) |-> rs[i].pathname \o <<" ", "/">>]

\* lines 235-252: the redirect routes are appended to _redirects; a failure
\* of appendFile is caught and dropped
AppendRedirects ==
    /\ pc = "appendRedirects"
    /\ IF RedirectLines # <<>>
       THEN \E ok \in BOOLEAN :
               fsOut' = IF ok /\ fsOut[RedirectsFile].kind # "dir"
                        THEN [fsOut EXCEPT ![RedirectsFile] =
                                 FileOf(fsOut[RedirectsFile].body \o RedirectLines)]
                        ELSE fsOut
       ELSE UNCHANGED fsOut
    /\ pc' = "done"
    /\ UNCHANGED <<inputVars, fsClient, statVars, listVars, writeCalls, stages>>
    /\ UNCHANGED <<parseVars, compileVars, sortVars, dedupVars>>

HookNext ==
    \/ MoveControlFiles
    \/ StatRedirects
    \/ ReadRedirects
    \/ StatRoutes
    \/ Classify
    \/ CollectExcludes
    \/ SortLists
    \/ DedupInclude
    \/ DedupExclude
    \/ WriteManifest
    \/ AppendRedirects

(***************************************************************************)
(* Specification SpecParse: getParts on a bounded set of segments          *)
(***************************************************************************)
MaxPartLen == 5

ParseAlphabet == {"[", "]", ".", "(", ")", "x", "1"}

\* the segments the documentation names
NamedParts ==
    { <<"[","1","a","b","c","]">>, <<"[",".",".","x","]">>, <<"[","i","d","]">>,
      <<"[",".",".",".","n","a","m","e","]">>, <<"p","-","[","i","d","]">> }

ParseInputs == StringsUpTo(ParseAlphabet, MaxPartLen) \cup NamedParts

PendingParts == [done |-> FALSE, err |-> FALSE, parts |-> <<>>]

ParseIdle == pPart = <<>> /\ pOut = PendingParts

ParseInit == pPart \in ParseInputs /\ pOut = PendingParts

Parse ==
    /\ ~pOut.done
    /\ pOut' = [done |-> TRUE, err |-> getParts(pPart).err, parts |-> getParts(pPart).parts]
    /\ UNCHANGED pPart
    /\ UNCHANGED <<hookVars, compileVars, sortVars, dedupVars>>

(***************************************************************************)
(* Specification SpecCompile: segmentsToCfSyntax on bounded routes         *)
(***************************************************************************)
MaxSegments == 3

\* the segments routes are made of: literal, parameter, rest parameter and
\* a parameter with a literal prefix
SegmentTexts ==
    { <<"a">>, <<"[","i","d","]">>, <<"[",".",".",".","s","]">>,
      <<"p","-","[","i","d","]">> }

SegmentChoices == { getParts(t).parts : t \in SegmentTexts }

CompileBases == { <<"/">>, <<"/","d">>, <<"/","d","/">>, <<>> }

PendingTokens == [done |-> FALSE, tokens |-> <<>>]

CompileIdle == cSegments = <<>> /\ cBase = <<"/">> /\ cOut = PendingTokens

CompileInit ==
    /\ cSegments \in UNION { [1..n -> SegmentChoices] : n \in 0..MaxSegments }
    /\ cBase \in CompileBases
    /\ cOut = PendingTokens

Compile ==
    /\ ~cOut.done
    /\ cOut' = [done |-> TRUE, tokens |-> segmentsToCfSyntax(cSegments, cBase)]
    /\ UNCHANGED <<cSegments, cBase>>
    /\ UNCHANGED <<hookVars, parseVars, sortVars, dedupVars>>

(***************************************************************************)
(* Specification SpecSort: sort on three bounded token sequences           *)
(***************************************************************************)
MaxTokens == 2

\* the empty base token, a literal and the wildcard
SortTokens == { <<>>, <<"a">>, Wildcard }

TokenSequences == UNION { [1..n -> SortTokens] : n \in 1..MaxTokens }

PendingOrder == [done |-> FALSE, ab |-> 0, ba |-> 0, bc |-> 0, ac |-> 0, aa |-> 0]

SortIdle == sFirst = <<>> /\ sSecond = <<>> /\ sThird = <<>> /\ sOut = PendingOrder

SortInit ==
    /\ sFirst \in TokenSequences
    /\ sSecond \in TokenSequences
    /\ sThird \in TokenSequences
    /\ sOut = PendingOrder

Compare ==
    /\ ~sOut.done
    /\ sOut' = [done |-> TRUE, ab |-> sort(sFirst, sSecond), ba |-> sort(sSecond, sFirst),
                bc |-> sort(sSecond, sThird), ac |-> sort(sFirst, sThird),
                aa |-> sort(sFirst, sFirst)]
    /\ UNCHANGED <<sFirst, sSecond, sThird>>
    /\ UNCHANGED <<hookVars, parseVars, compileVars, dedupVars>>

(***************************************************************************)
(* Specification SpecDedup: the deduplication loop on bounded sorted lists *)
(***************************************************************************)
MaxPaths == 3
MaxDepth == 2

DedupTokens == { <<"a">>, <<"b">>, Wildcard }

\* patterns as segmentsToCfSyntax makes them for the base "/": the empty
\* base token, then one token per part
DedupPatterns == { << <<>> >> \o t : t \in UNION { [1..n -> DedupTokens] : n \in 1..MaxDepth } }
                     \cup { << <<>>, <<"a">>, <<"b">>, <<"c">> >> }

DedupIdle ==
    /\ dPaths = <<>> /\ dIndex = 0 /\ dPass = 0
    /\ dSorted = <<>> /\ dFirstPass = <<>> /\ dRemoved = {}

\* the list as it is after includePaths.sort(sort)
DedupInit ==
    /\ \E list \in UNION { [1..n -> DedupPatterns] : n \in 0..MaxPaths } :
          /\ dPaths = SortPaths(list)
          /\ dSorted = SortPaths(list)
    /\ dIndex = 0 /\ dPass = 1 /\ dFirstPass = <<>> /\ dRemoved = {}

\* one turn of the loop over paths.entries(): deduplicateInPlace for the
\* element at dIndex. dRemoved records, for the first pass, which element
\* removed which.
DedupElement ==
    /\ dPass \in {1, 2}
    /\ dIndex < Len(dPaths)
    /\ LET element == dPaths[dIndex + 1]
           r == deduplicateInPlace(element, dIndex, dPaths)
       IN /\ dPaths' = r.paths
          /\ dRemoved' = IF dPass = 1
                         THEN dRemoved \cup { <<element, r.removed[k]>> : k \in 1..Len(r.removed) }
                         ELSE dRemoved
    /\ dIndex' = dIndex + 1
    /\ UNCHANGED <<dPass, dSorted, dFirstPass>>
    /\ UNCHANGED <<hookVars, parseVars, compileVars, sortVars>>

\* the loop has ended; the pass is run once more on its own result
DedupAgain ==
    /\ dPass = 1
    /\ dIndex >= Len(dPaths)
    /\ dFirstPass' = dPaths
    /\ dPass' = 2
    /\ dIndex' = 0
    /\ UNCHANGED <<dPaths, dSorted, dRemoved>>
    /\ UNCHANGED <<hookVars, parseVars, compileVars, sortVars>>

DedupDone(pass) == dPass = pass /\ dIndex >= Len(dPaths)

(***************************************************************************)
(* Properties                                                              *)
(***************************************************************************)
Str404 == <<"/","4","0","4">>
Str1abc == <<"[","1","a","b","c","]">>
StrTwoDots == <<"[",".",".","x","]">>
StrId == <<"[","i","d","]">>
StrSpread == <<"[",".",".",".","n","a","m","e","]">>

\* some route is the prerendered /404
HasPrerendered404Route ==
    \E i \in 1..Len(routes) : routes[i].pathname = Str404 /\ routes[i].prerender = TRUE

\* the condition under which the include-everything manifest is due
ExcludeModeDue ==
    \/ ~HasPrerendered404Route
    \/ Len(includePaths) > 100
    \/ Len(includePaths) > Len(excludePaths)

IncludeModeDue == ~ExcludeModeDue /\ Len(includePaths) < Len(excludePaths)

\* C1: once both lists are sorted and deduplicated and the decision is
\* taken, exactly one of three things has happened: an exclude-mode manifest
\* {version 1, include ["/*"]} was handed to writeFile (no prerendered /404,
\* or more than 100 include patterns, or more include than exclude
\* patterns); otherwise, with fewer include than exclude patterns, an
\* include-mode manifest listing every include pattern joined by "/" in list
\* order, with an empty exclude; otherwise (equal sizes) nothing was
\* written. The file is what was handed over, unless the write failed.
C1_ManifestOutcome ==
    "decided" \in stages =>
        /\ ExcludeModeDue =>
              /\ Len(writeCalls) = 1
              /\ writeCalls[1].version = 1
              /\ writeCalls[1].include = << <<"/","*">> >>
        /\ IncludeModeDue =>
              writeCalls = << [version |-> 1,
                               include |-> [k \in 1..Len(includePaths) |->
                                               Join(includePaths[k], "/")],
                               exclude |-> <<>>] >>
        /\ (~ExcludeModeDue /\ ~IncludeModeDue) =>
              writeCalls = <<>> /\ fsOut[RoutesFile] = routesAtStat
        /\ writeCalls # <<>> =>
              fsOut[RoutesFile] \in {routesAtStat, FileOf(<<writeCalls[1]>>)}

\* C1 witness: an include-mode manifest has been written to the file
C1_Witness ==
    /\ "decided" \in stages
    /\ IncludeModeDue
    /\ Len(includePaths) > 0
    /\ fsOut[RoutesFile] = FileOf(<<writeCalls[1]>>)

\* C2: in exclude mode the exclude array is the first min(99, |excludePaths|)
\* entries of the sorted, deduplicated excludePaths, joined, in list order;
\* a manifest handed to writeFile, in either mode, holds at most 100
\* patterns, include and exclude together.
C2_PatternCeiling ==
    ("decided" \in stages /\ writeCalls # <<>>) =>
        LET m == writeCalls[1]
            n == IF Len(excludePaths) < 99 THEN Len(excludePaths) ELSE 99
        IN /\ ExcludeModeDue =>
                 /\ Len(m.exclude) = n
                 /\ \A k \in 1..n : m.exclude[k] = Join(excludePaths[k], "/")
           /\ Len(m.include) + Len(m.exclude) <= 100

\* C2 witness: more than 100 include patterns and more than 99 exclude
\* patterns, with a prerendered /404: exclude mode, cut to 99 entries
C2_Witness ==
    /\ "decided" \in stages
    /\ HasPrerendered404Route
    /\ Len(includePaths) > 100
    /\ Len(excludePaths) > 99
    /\ writeCalls # <<>>
    /\ Len(writeCalls[1].exclude) = 99

\* C8: if _routes.json is a file in the output directory when the hook
\* checks for it (after the move of the control files), createRoutesFile is
\* not run and the file stays as it was; in every run writeFile is called
\* at most once for the manifest, and only after classification, sorting
\* and deduplication.
C8_ExistingManifestKept ==
    /\ routesExists =>
          /\ writeCalls = <<>>
          /\ stages = {}
          /\ fsOut[RoutesFile] = routesAtStat
    /\ Len(writeCalls) <= 1
    /\ writeCalls # <<>> => {"classified", "sorted", "deduplicated"} \subseteq stages

\* C8 witness: the manifest moved in from the client directory was found,
\* and the hook has run to its end
C8_Witness ==
    /\ pc = "done"
    /\ routesExists
    /\ fsOut[RoutesFile] = FileOf(<<ClientManifest>>)

\* the first position where exactly one of two equally long token sequences
\* has the wildcard, 0 if there is none
FirstWildcardDifference(a, b) ==
    LET ds == { i \in 1..Len(a) : (a[i] = Wildcard) # (b[i] = Wildcard) }
    IN IF ds = {} THEN 0 ELSE CHOOSE i \in ds : \A j \in ds : i <= j

\* C3 as claimed: the comparator puts the sequence with more tokens first;
\* of two equally long sequences, the one with the literal at the first
\* position where exactly one has the wildcard; identical sequences compare
\* equal.
C3_SpecificFirst ==
    sOut.done =>
        /\ Len(sFirst) > Len(sSecond) => sOut.ab < 0
        /\ Len(sFirst) < Len(sSecond) => sOut.ab > 0
        /\ (Len(sFirst) = Len(sSecond) /\ FirstWildcardDifference(sFirst, sSecond) # 0) =>
              LET i == FirstWildcardDifference(sFirst, sSecond)
              IN IF sSecond[i] = Wildcard THEN sOut.ab < 0 ELSE sOut.ab > 0
        /\ sFirst = sSecond => sOut.ab = 0

\* C9: the comparator is a strict weak ordering: irreflexive, asymmetric,
\* transitive, and comparing equal is transitive.
C9_StrictWeakOrder ==
    sOut.done =>
        /\ sOut.aa = 0
        /\ (sOut.ab < 0) = (sOut.ba > 0)
        /\ (sOut.ab = 0) = (sOut.ba = 0)
        /\ (sOut.ab < 0 /\ sOut.bc < 0) => sOut.ac < 0
        /\ (sOut.ab = 0 /\ sOut.bc = 0) => sOut.ac = 0

\* C9 witness: three different sequences of one length in a chain
C9_Witness ==
    /\ sOut.done
    /\ Len(sFirst) = Len(sSecond) /\ Len(sSecond) = Len(sThird)
    /\ sOut.ab < 0 /\ sOut.bc < 0 /\ sOut.ac < 0

\* C4 as claimed: after the deduplication pass no remaining pattern is
\* matched by the matcher of a remaining pattern that stands before it.
C4_NoneLeftMatched ==
    DedupDone(1) =>
        \A i \in 1..Len(dPaths) : \A j \in (i + 1)..Len(dPaths) :
            ~MatchesFrom(ElementRegExp(dPaths[i]), Join(dPaths[j], "/"), 0)

\* C5 as claimed: a second deduplication pass over the result of the first
\* leaves the list unchanged.
C5_Idempotent == DedupDone(2) => dPaths = dFirstPass

RECURSIVE TrailingWildcards(_)
\* the length of the run of wildcard tokens at the end of a pattern
TrailingWildcards(p) ==
    IF p # <<>> /\ p[Len(p)] = Wildcard
    THEN 1 + TrailingWildcards(SubSeq(p, 1, Len(p) - 1)) ELSE 0

\* q has the tokens of p up to p's trailing wildcard run, and one or more
\* tokens where p has that run (q = p when p has no such run)
Subsumes(p, q) ==
    LET n == Len(p) - TrailingWildcards(p)
    IN IF n = Len(p) THEN q = p
       ELSE Len(q) > n /\ SubSeq(q, 1, n) = SubSeq(p, 1, n)

\* C10 as claimed: a pattern is removed only on account of a pattern that
\* stands before it, remains, and subsumes it.
C10_RemovedOnlyIfSubsumed ==
    DedupDone(1) => \A pq \in dRemoved : Subsumes(pq[1], pq[2])

\* the tokens the claim expects: the normalized base, then per segment "*"
\* if a part of it is dynamic and its literal content otherwise
ExpectedTokens(segments, base) ==
    LET norm == removeLeadingForwardSlash(removeTrailingForwardSlash(base))
    IN IF segments = <<>> THEN <<norm, <<>>>>
       ELSE <<norm>> \o [i \in 1..Len(segments) |->
                IF \E k \in 1..Len(segments[i]) : segments[i][k].dynamic
                THEN Wildcard ELSE segments[i][1].content]

\* C6 as claimed: the compiler returns the normalized base path, then one
\* token per segment ("*" if any part is dynamic, else the literal), and
\* [base, ""] for no segments: 1 + max(1, number of segments) tokens.
C6_OneTokenPerSegment ==
    cOut.done =>
        /\ cOut.tokens = ExpectedTokens(cSegments, cBase)
        /\ Len(cOut.tokens) = 1 + (IF Len(cSegments) > 1 THEN Len(cSegments) ELSE 1)

\* [A-Za-z0-9_$]+ after an optional "..."
ValidParameter(c) ==
    LET name == IF Len(c) >= 3 /\ SubSeq(c, 1, 3) = <<".", ".", ".">>
                THEN SubSeq(c, 4, Len(c)) ELSE c
    IN name # <<>> /\ \A i \in 1..Len(name) : name[i] \in WordChar \cup {"$"}

\* the text between the brackets of a segment that is one bracket pair
\* around text free of brackets and parentheses; <<>> for other segments
SoleParameter(part) ==
    IF /\ Len(part) >= 3 /\ part[1] = "[" /\ part[Len(part)] = "]"
       /\ \A i \in 2..(Len(part) - 1) : part[i] \notin {"[", "]", "(", ")"}
    THEN SubSeq(part, 2, Len(part) - 1) ELSE <<>>

Init == HookInit /\ ParseIdle /\ CompileIdle /\ SortIdle /\ DedupIdle
Next == HookNext
Spec == Init /\ [][Next]_vars

InitParse == ParseInit /\ HookIdle /\ CompileIdle /\ SortIdle /\ DedupIdle
NextParse == Parse
SpecParse == InitParse /\ [][NextParse]_vars

InitCompile == CompileInit /\ HookIdle /\ ParseIdle /\ SortIdle /\ DedupIdle
NextCompile == Compile
SpecCompile == InitCompile /\ [][NextCompile]_vars

InitSort == SortInit /\ HookIdle /\ ParseIdle /\ CompileIdle /\ DedupIdle
NextSort == Compare
SpecSort == InitSort /\ [][NextSort]_vars

InitDedup == DedupInit /\ HookIdle /\ ParseIdle /\ CompileIdle /\ SortIdle
NextDedup == DedupElement \/ DedupAgain
SpecDedup == InitDedup /\ [][NextDedup]_vars

====
